---- MODULE Spec2Model ----
(***************************************************************************)
(* Data-preparation pipeline of the campaign-finance dashboard             *)
(* (src/choropleth_dashboard.py, src/zip_choropleth.py): load_data, the    *)
(* two-stage state aggregation of tab 1, the ZIP -> county crosswalk, the  *)
(* donation/crosswalk/county join and the two choropleth metrics of tab 3. *)
(*                                                                         *)
(* Text values (ZIP, GEOID, dates) are sequences of one-character strings  *)
(* so that slicing, padding and number formatting are computed.  Money is  *)
(* an integer number of dollars, tot_ratio an integer number of percent.   *)
(***************************************************************************)
EXTENDS Integers, Sequences, FiniteSets, TLC

VARIABLES
    csv,              \* rows of P00000001-ALL.csv, as text fields
    hud,              \* "results" of the HUD crosswalk response the process
                      \* has fetched (line 72); <<>> before
    geojson,          \* features of counties_simplified.geojson as read by
                      \* this run of the script (line 284); <<>> before
    cache_load_data,  \* st.cache_data entry of load_data
    cache_crosswalk,  \* st.cache_data entry of load_zip_to_county_crosswalk
    cf_df,            \* script variable cf_df
    monthly_grouped,  \* result of get_monthly_grouped(cf_df), line 62
    state_cand_sums,  \* tab 1: result of the two group-bys
    crosswalk_df,     \* tab 3: crosswalk used in the join
    merged_df,        \* tab 3: donations joined to the crosswalk
    choropleth_df,    \* tab 3: one row per county
    mode,             \* tab 3: the view mode rendered in this run
    err,              \* exception that ended the script run, or "none"
    body_runs,        \* executions of the body of load_data in this process
    pc                \* position of the script run

vars == <<csv, hud, geojson, cache_load_data, cache_crosswalk, cf_df,
          monthly_grouped, state_cand_sums, crosswalk_df, merged_df, choropleth_df, mode,
          err, body_runs, pc>>

\* ------------------------------------------------------------------ bounds
MaxRows == 2
MaxXw == 2
MaxCounties == 3
MaxBodyRuns == 2

\* ------------------------------------------------------------- text values
Min(a, b) == IF a < b THEN a ELSE b

DigitChars == <<"0", "1", "2", "3", "4", "5", "6", "7", "8", "9">>

IsDigit(c) == \E i \in 1..10 : DigitChars[i] = c

CharVal(c) == (CHOOSE i \in 1..10 : DigitChars[i] = c) - 1

IsDigits(s) == Len(s) > 0 /\ \A i \in 1..Len(s) : IsDigit(s[i])

\* value of a string of decimal digits (leading zeros carry no value)
RECURSIVE IntOfStr(_)
IntOfStr(s) ==
    IF Len(s) = 0 THEN 0
    ELSE 10 * IntOfStr(SubSeq(s, 1, Len(s) - 1)) + CharVal(s[Len(s)])

\* Python str(n) for an int n >= 0
RECURSIVE StrOfInt(_)
StrOfInt(n) ==
    IF n < 10 THEN <<DigitChars[n + 1]>>
    ELSE Append(StrOfInt(n \div 10), DigitChars[(n % 10) + 1])

\* cell values of a column: a string, an int64, a float64 with an integral
\* value, the float NaN, or the object None
S(s) == [t |-> "str", s |-> s, n |-> 0]
I(n) == [t |-> "int", s |-> <<>>, n |-> n]
F(n) == [t |-> "float", s |-> <<>>, n |-> n]
NaN == [t |-> "nan", s |-> <<>>, n |-> 0]
None == [t |-> "none", s |-> <<>>, n |-> 0]

IsNA(v) == v.t \in {"nan", "none"}

\* Series.astype(str): str() of every cell, missing values included
AsTypeStr(v) ==
    CASE v.t = "str" -> v.s
      [] v.t = "int" -> StrOfInt(v.n)
      [] v.t = "float" -> StrOfInt(v.n) \o <<".", "0">>
      [] v.t = "nan" -> <<"n", "a", "n">>
      [] v.t = "none" -> <<"N", "o", "n", "e">>

ZipWidth == 5

\* Series.str[:4]: a slice one character short
StrSliceShort(s) == SubSeq(s, 1, Min(Len(s), ZipWidth - 1))

\* Series.str[:5]
StrSlice(s) == SubSeq(s, 1, Min(Len(s), ZipWidth))

\* Series.str.zfill(5): pad on the left with "0" up to the width
RECURSIVE ZFill(_)
ZFill(s) == IF Len(s) >= ZipWidth THEN s ELSE ZFill(<<"0">> \o s)

\* ------------------------------------------------------------------ inputs
Z75001 == <<"7", "5", "0", "0", "1">>
Z00501 == <<"0", "0", "5", "0", "1">>
Z005011234 == Z00501 \o <<"1", "2", "3", "4">>
Z750011234 == Z75001 \o <<"1", "2", "3", "4">>
Z75001h1234 == Z75001 \o <<"-", "1", "2", "3", "4">>

D05Jan24 == <<"0", "5", "-", "J", "a", "n", "-", "2", "4">>
D17Feb24 == <<"1", "7", "-", "F", "e", "b", "-", "2", "4">>
DSlashes == <<"0", "5", "/", "0", "1", "/", "2", "0", "2", "4">>

Harris == "Harris, Kamala"
Trump == "Trump, Donald J."
Stein == "Stein, Jill"

CsvRow(st, zip, cand, dt, amt) ==
    [contbr_st |-> st, contbr_zip |-> zip, cand_nm |-> cand,
     contb_receipt_dt |-> dt, contb_receipt_amt |-> amt]

\* the rows a donation file is made of
CsvPool ==
    << CsvRow("TX", Z75001, Harris, D05Jan24, 50),
       CsvRow("TX", Z75001, Trump, D05Jan24, 100),
       CsvRow("NY", Z00501, Harris, D17Feb24, 20),
       CsvRow("NY", Z005011234, Trump, D17Feb24, 30),
       CsvRow("TX", <<>>, Harris, D05Jan24, 5),
       CsvRow("TX", Z75001h1234, Stein, D05Jan24, 7),
       CsvRow("DC", Z75001, Harris, DSlashes, 9),
       CsvRow("", Z75001, Trump, D05Jan24, 100),
       CsvRow("TX", Z75001, Trump, DSlashes, 4),
       CsvRow("TX", Z75001, Harris, <<>>, 3),
       CsvRow("TX", Z75001, Harris, D05Jan24, -50),
       CsvRow("NY", Z00501, Trump, D17Feb24, 0) >>

XwRow(zip, geoid, ratio) == [zip |-> zip, geoid |-> geoid, tot_ratio |-> ratio]

G48113 == <<"4", "8", "1", "1", "3">>
G36103 == <<"3", "6", "1", "0", "3">>
G72001 == <<"7", "2", "0", "0", "1">>
G06037 == <<"0", "6", "0", "3", "7">>

\* the entries a crosswalk response is made of
XwPool ==
    << XwRow(S(Z75001), S(G48113), 90),
       XwRow(S(Z75001), I(6037), 10),
       XwRow(S(Z750011234), S(G48113), 10),
       XwRow(S(Z00501), S(G36103), 100),
       XwRow(S(Z75001), S(G36103), 90) >>

Feature(geoid, name) == [GEOID |-> geoid, NAMELSAD |-> name]

CountyPool ==
    << Feature(S(G48113), "Dallas County"),
       Feature(S(G36103), "Suffolk County"),
       Feature(S(G72001), "Adjuntas Municipio"),
       Feature(S(G06037), "Los Angeles County") >>

\* sequences of pool positions: strictly increasing, at most n long
Increasing(k, n) ==
    UNION {{q \in [1..m -> 1..k] : \A i, j \in 1..m : i < j => q[i] < q[j]} :
           m \in 0..n}

\* sequences of distinct pool positions, in any order, 1..n long
Distinct(k, n) ==
    UNION {{q \in [1..m -> 1..k] : \A i, j \in 1..m : i # j => q[i] # q[j]} :
           m \in 1..n}

Pick(pool, q) == [i \in 1..Len(q) |-> pool[q[i]]]

CsvFiles == {Pick(CsvPool, q) : q \in Increasing(Len(CsvPool), MaxRows)}

HudResponses == {Pick(XwPool, q) : q \in Distinct(Len(XwPool), Min(MaxXw, Len(XwPool)))}

GeoFiles == {SubSeq(CountyPool, 1, n) : n \in 1..Min(MaxCounties, Len(CountyPool))}

\* --------------------------------------------------------------- load_data
\* pyarrow.csv.read_csv(...).to_pandas() on the contbr_zip column: a column
\* of digit strings is read as int64 (leading zeros carry no value), and as
\* float64 with NaN when some of its fields are empty; any other column is
\* read as strings, an empty field as ""; a column with no value is all None
ZipColumnType(file) ==
    IF \A i \in 1..Len(file) : file[i].contbr_zip = <<>> THEN "null"
    ELSE IF \A i \in 1..Len(file) :
                file[i].contbr_zip = <<>> \/ IsDigits(file[i].contbr_zip)
         THEN IF \E i \in 1..Len(file) : file[i].contbr_zip = <<>>
              THEN "double" ELSE "int64"
         ELSE "string"

ReadZip(type, field) ==
    CASE type = "null" -> None
      [] type = "int64" -> I(IntOfStr(field))
      [] type = "double" -> IF field = <<>> THEN NaN ELSE F(IntOfStr(field))
      [] type = "string" -> S(field)

\* the frame read from the file; idx is the frame's index
read_csv(file) ==
    [i \in 1..Len(file) |->
        [idx |-> i,
         contbr_st |-> file[i].contbr_st,
         contbr_zip |-> ReadZip(ZipColumnType(file), file[i].contbr_zip),
         cand_nm |-> file[i].cand_nm,
         contb_receipt_dt |-> file[i].contb_receipt_dt,
         contb_receipt_amt |-> file[i].contb_receipt_amt]]

state_codes ==
    {"AL", "AK", "AZ", "AR", "CA", "CO", "CT", "DE", "FL", "GA", "HI", "ID", "IL",
     "IN", "IA", "KS", "KY", "LA", "ME", "MD", "MA", "MI", "MN", "MS", "MO", "MT",
     "NE", "NV", "NH", "NJ", "NM", "NY", "NC", "ND", "OH", "OK", "OR", "PA", "RI",
     "SC", "SD", "TN", "TX", "UT", "VT", "VA", "WA", "WV", "WI", "WY"}

\* df[df["contbr_st"].isin(state_codes)]
InStates(r) == r.contbr_st \in state_codes

PositiveOrZero(r) == r.contb_receipt_amt >= 0

\* df[df["contb_receipt_amt"] > 0]
Positive(r) == r.contb_receipt_amt > 0

MonthAbbr ==
    << <<"J", "a", "n">>, <<"F", "e", "b">>, <<"M", "a", "r">>, <<"A", "p", "r">>,
       <<"M", "a", "y">>, <<"J", "u", "n">>, <<"J", "u", "l">>, <<"A", "u", "g">>,
       <<"S", "e", "p">>, <<"O", "c", "t">>, <<"N", "o", "v">>, <<"D", "e", "c">> >>

Timestamp(y, m, d) == [nat |-> FALSE, y |-> y, m |-> m, d |-> d]
NaT == [nat |-> TRUE, y |-> 0, m |-> 0, d |-> 0]

\* %y: 00..68 are 2000..2068, 69..99 are 1969..1999
Year(yy) == IF yy < 69 THEN 2000 + yy ELSE 1900 + yy

DaysIn(y, m) ==
    IF m = 2 THEN (IF y % 4 = 0 THEN 29 ELSE 28)
    ELSE IF m \in {4, 6, 9, 11} THEN 30 ELSE 31

\* number of digits of the day field of a "%d-%b-%y" string
DayLen(s) == IF Len(s) >= 2 /\ IsDigit(s[2]) THEN 2 ELSE 1

\* does the string match "%d-%b-%y" and name a day of the calendar
Parses(s) ==
    LET dl == DayLen(s)
    IN /\ Len(s) = dl + 7
       /\ IsDigits(SubSeq(s, 1, dl))
       /\ s[dl + 1] = "-"
       /\ \E m \in 1..12 : MonthAbbr[m] = SubSeq(s, dl + 2, dl + 4)
       /\ s[dl + 5] = "-"
       /\ IsDigits(SubSeq(s, dl + 6, dl + 7))
       /\ LET m == CHOOSE k \in 1..12 : MonthAbbr[k] = SubSeq(s, dl + 2, dl + 4)
              y == Year(IntOfStr(SubSeq(s, dl + 6, dl + 7)))
          IN IntOfStr(SubSeq(s, 1, dl)) \in 1..DaysIn(y, m)

strptime(s) ==
    LET dl == DayLen(s)
    IN Timestamp(Year(IntOfStr(SubSeq(s, dl + 6, dl + 7))),
                 CHOOSE k \in 1..12 : MonthAbbr[k] = SubSeq(s, dl + 2, dl + 4),
                 IntOfStr(SubSeq(s, 1, dl)))

DateNeverRaises(s) == FALSE

\* pd.to_datetime(column, format="%d-%b-%y") with errors="raise": an empty
\* string is a missing value and becomes NaT; any other string that does
\* not match the format raises for the whole column
DateRaises(s) == s # <<>> /\ ~Parses(s)

to_datetime_raises(df) == \E i \in 1..Len(df) : DateRaises(df[i].contb_receipt_dt)

\* the column after parsing; a cell that holds no date is NaT
to_datetime(df) ==
    [i \in 1..Len(df) |->
        [df[i] EXCEPT !.contb_receipt_dt = IF Parses(@) THEN strptime(@) ELSE NaT]]

\* load_data raises where pd.to_datetime raises: on the rows the state
\* filter has kept
load_data_raises(file) == to_datetime_raises(SelectSeq(read_csv(file), InStates))

\* the frame load_data returns when it does not raise
load_data(file) ==
    SelectSeq(to_datetime(SelectSeq(read_csv(file), InStates)), Positive)

\* ------------------------------------------------------- frames and groups
Rows(df) == {df[i] : i \in 1..Len(df)}

RECURSIVE SumAmt(_)
SumAmt(df) ==
    IF df = <<>> THEN 0 ELSE Head(df).contb_receipt_amt + SumAmt(Tail(df))

RECURSIVE SumAmtSet(_)
SumAmtSet(rows) ==
    IF rows = {} THEN 0
    ELSE LET r == CHOOSE x \in rows : TRUE
         IN r.contb_receipt_amt + SumAmtSet(rows \ {r})

RECURSIVE SetToSeq(_)
SetToSeq(rows) ==
    IF rows = {} THEN <<>>
    ELSE LET r == CHOOSE x \in rows : TRUE IN <<r>> \o SetToSeq(rows \ {r})

\* A group-by result has one row per key, in key order; no step of the
\* pipeline reads that order, so the result is kept as the set of its rows.

\* ------------------------------------------------------ monthly totals
\* str(Period(freq="M")): "YYYY-MM"; the missing period prints as "NaT"
PeriodStr(ts) ==
    IF ts.nat THEN <<"N", "a", "T">>
    ELSE StrOfInt(ts.y) \o <<"-">> \o
         (IF ts.m < 10 THEN <<"0">> ELSE <<>>) \o StrOfInt(ts.m)

\* the sums per month over all candidates
get_monthly_grouped_by_month(df) ==
    {[month |-> PeriodStr(r.contb_receipt_dt), cand_nm |-> r.cand_nm,
      contb_receipt_amt |->
          SumAmt(SelectSeq(df, LAMBDA x : PeriodStr(x.contb_receipt_dt) =
                                              PeriodStr(r.contb_receipt_dt)))] :
     r \in Rows(df)}

\* df["month"] = df["contb_receipt_dt"].dt.to_period("M").astype(str)
\* df.groupby(["month", "cand_nm"])["contb_receipt_amt"].sum().reset_index()
\* the month key is a string for every row, so no row is dropped
get_monthly_grouped(df) ==
    {[month |-> PeriodStr(r.contb_receipt_dt), cand_nm |-> r.cand_nm,
      contb_receipt_amt |->
          SumAmt(SelectSeq(df, LAMBDA x : /\ PeriodStr(x.contb_receipt_dt) =
                                                 PeriodStr(r.contb_receipt_dt)
                                          /\ x.cand_nm = r.cand_nm))] :
     r \in Rows(df)}

\* ------------------------------------------------------------------- tab 1
\* groupby drops the rows whose key is missing (dropna=True by default);
\* contbr_st and cand_nm are never missing in the frames modelled
GroupZipKeeps(r) == ~IsNA(r.contbr_zip)

\* cf_df.groupby(["contbr_st", "contbr_zip", "cand_nm"])[amt].sum().reset_index()
grouped(df) ==
    LET kept == SelectSeq(df, GroupZipKeeps)
    IN {[contbr_st |-> r.contbr_st, contbr_zip |-> r.contbr_zip, cand_nm |-> r.cand_nm,
         contb_receipt_amt |->
             SumAmt(SelectSeq(kept, LAMBDA x : /\ x.contbr_st = r.contbr_st
                                               /\ x.contbr_zip = r.contbr_zip
                                               /\ x.cand_nm = r.cand_nm))] :
        r \in Rows(kept)}

\* grouped.groupby(["contbr_st", "cand_nm"])[amt].sum().reset_index()
state_cand(g) ==
    {[contbr_st |-> r.contbr_st, cand_nm |-> r.cand_nm,
      contb_receipt_amt |->
          SumAmtSet({x \in g : x.contbr_st = r.contbr_st /\ x.cand_nm = r.cand_nm})] :
     r \in g}

\* --------------------------------------------------------------- crosswalk
\* df["zip"].astype(str), df["geoid"].astype(str); idx is the frame's index
crosswalk_frame(resp) ==
    [i \in 1..Len(resp) |->
        [idx |-> i, zip |-> S(AsTypeStr(resp[i].zip)),
         geoid |-> S(AsTypeStr(resp[i].geoid)), tot_ratio |-> resp[i].tot_ratio]]

SortOrdersAscending(df) ==
    {p \in Permutations(1..Len(df)) :
        \A i, j \in 1..Len(df) : i < j => df[p[i]].tot_ratio <= df[p[j]].tot_ratio}

\* df.sort_values("tot_ratio", ascending=False) with the default sort kind,
\* which is not stable: any order of the rows that is descending in
\* tot_ratio can come out
SortOrders(df) ==
    {p \in Permutations(1..Len(df)) :
        \A i, j \in 1..Len(df) : i < j => df[p[i]].tot_ratio >= df[p[j]].tot_ratio}

sort_values(df, p) == [i \in 1..Len(df) |-> df[p[i]]]

\* df.drop_duplicates("zip"): the first row of every zip is kept
RECURSIVE drop_duplicates(_)
drop_duplicates(df) ==
    IF df = <<>> THEN <<>>
    ELSE LET n == Len(df)
             front == SubSeq(df, 1, n - 1)
         IN IF \E i \in 1..(n - 1) : df[i].zip = df[n].zip
            THEN drop_duplicates(front)
            ELSE Append(drop_duplicates(front), df[n])

\* the frames load_zip_to_county_crosswalk can return for a response
load_zip_to_county_crosswalk(resp) ==
    {drop_duplicates(sort_values(crosswalk_frame(resp), p)) :
        p \in SortOrders(crosswalk_frame(resp))}

\* ------------------------------------------------------- tab 3: join
\* Series.astype(str).str[:5].str.zfill(5)
NormalizeZip(v) == ZFill(StrSlice(AsTypeStr(v)))

NormalizeDonations(df) ==
    [i \in 1..Len(df) |-> [df[i] EXCEPT !.contbr_zip = S(NormalizeZip(@))]]

NormalizeCrosswalk(df) ==
    [i \in 1..Len(df) |-> [df[i] EXCEPT !.zip = S(NormalizeZip(@))]]

WithGeoid(r, g) ==
    [idx |-> r.idx, contbr_st |-> r.contbr_st, contbr_zip |-> r.contbr_zip,
     cand_nm |-> r.cand_nm, contb_receipt_dt |-> r.contb_receipt_dt,
     contb_receipt_amt |-> r.contb_receipt_amt, GEOID |-> g]

\* the rows of a left merge for one donation: one per crosswalk row of its
\* zip, in crosswalk order, or a single row without GEOID
MergeRow(r, xw) ==
    LET m == SelectSeq(xw, LAMBDA x : x.zip = S(AsTypeStr(r.contbr_zip)))
    IN IF m = <<>> THEN <<WithGeoid(r, NaN)>>
       ELSE [j \in 1..Len(m) |-> WithGeoid(r, m[j].geoid)]

\* merged_df.merge(crosswalk_df[["zip", "geoid"]], left_on="contbr_zip",
\*                 right_on="zip", how="left").rename(geoid -> GEOID)
RECURSIVE merge_crosswalk(_, _)
merge_crosswalk(df, xw) ==
    IF df = <<>> THEN <<>>
    ELSE MergeRow(Head(df), xw) \o merge_crosswalk(Tail(df), xw)

\* a string cell that holds a name; the name is kept whole
Txt(name) == [t |-> "str", s |-> <<name>>, n |-> 0]

\* the dict of lines 289-299: the state name of a two-digit FIPS prefix
state_fips_map ==
    { << <<"0", "1">>, "Alabama" >>, << <<"0", "2">>, "Alaska" >>,
      << <<"0", "4">>, "Arizona" >>, << <<"0", "5">>, "Arkansas" >>,
      << <<"0", "6">>, "California" >>, << <<"0", "8">>, "Colorado" >>,
      << <<"0", "9">>, "Connecticut" >>, << <<"1", "0">>, "Delaware" >>,
      << <<"1", "1">>, "District of Columbia" >>, << <<"1", "2">>, "Florida" >>,
      << <<"1", "3">>, "Georgia" >>, << <<"1", "5">>, "Hawaii" >>,
      << <<"1", "6">>, "Idaho" >>, << <<"1", "7">>, "Illinois" >>,
      << <<"1", "8">>, "Indiana" >>, << <<"1", "9">>, "Iowa" >>,
      << <<"2", "0">>, "Kansas" >>, << <<"2", "1">>, "Kentucky" >>,
      << <<"2", "2">>, "Louisiana" >>, << <<"2", "3">>, "Maine" >>,
      << <<"2", "4">>, "Maryland" >>, << <<"2", "5">>, "Massachusetts" >>,
      << <<"2", "6">>, "Michigan" >>, << <<"2", "7">>, "Minnesota" >>,
      << <<"2", "8">>, "Mississippi" >>, << <<"2", "9">>, "Missouri" >>,
      << <<"3", "0">>, "Montana" >>, << <<"3", "1">>, "Nebraska" >>,
      << <<"3", "2">>, "Nevada" >>, << <<"3", "3">>, "New Hampshire" >>,
      << <<"3", "4">>, "New Jersey" >>, << <<"3", "5">>, "New Mexico" >>,
      << <<"3", "6">>, "New York" >>, << <<"3", "7">>, "North Carolina" >>,
      << <<"3", "8">>, "North Dakota" >>, << <<"3", "9">>, "Ohio" >>,
      << <<"4", "0">>, "Oklahoma" >>, << <<"4", "1">>, "Oregon" >>,
      << <<"4", "2">>, "Pennsylvania" >>, << <<"4", "4">>, "Rhode Island" >>,
      << <<"4", "5">>, "South Carolina" >>, << <<"4", "6">>, "South Dakota" >>,
      << <<"4", "7">>, "Tennessee" >>, << <<"4", "8">>, "Texas" >>,
      << <<"4", "9">>, "Utah" >>, << <<"5", "0">>, "Vermont" >>,
      << <<"5", "1">>, "Virginia" >>, << <<"5", "3">>, "Washington" >>,
      << <<"5", "4">>, "West Virginia" >>, << <<"5", "5">>, "Wisconsin" >>,
      << <<"5", "6">>, "Wyoming" >> }

\* Series.str[:2]
StatePrefix(s) == SubSeq(s, 1, Min(Len(s), 2))

\* Series.map(state_fips_map): the value of the key, NaN for a key the dict
\* does not have
MapState(prefix) ==
    IF \E e \in state_fips_map : e[1] = prefix
    THEN Txt((CHOOSE e \in state_fips_map : e[1] = prefix)[2])
    ELSE NaN

\* counties[["GEOID", "NAMELSAD", "geometry"]] with GEOID.astype(str) and
\* STATE = GEOID.str[:2].map(state_fips_map); the column is the field State
read_counties(file) ==
    [i \in 1..Len(file) |->
        [GEOID |-> S(AsTypeStr(file[i].GEOID)), NAMELSAD |-> file[i].NAMELSAD,
         State |-> MapState(StatePrefix(AsTypeStr(file[i].GEOID)))]]

\* ---------------------------------------------------- tab 3: metrics
\* numeric cells: a number or NaN; ratios are kept as fractions
Num(v) == [nan |-> FALSE, v |-> v]
NumNaN == [nan |-> TRUE, v |-> 0]

Rat(a, b) == [nan |-> FALSE, num |-> a, den |-> b]
RatNaN == [nan |-> TRUE, num |-> 0, den |-> 1]

\* float division a / b: 0 / 0 is NaN
Divide(a, b) == IF a = 0 /\ b = 0 THEN RatNaN ELSE Rat(a, b)

\* Series.fillna(0.5)
FillHalf(q) == IF q.nan THEN Rat(1, 2) ELSE q

Joined(df) == SelectSeq(df, LAMBDA r : ~IsNA(r.GEOID))

\* merged_df.groupby("GEOID")["contb_receipt_amt"].sum().reset_index()
county_donations(df) ==
    {[GEOID |-> r.GEOID,
      contb_receipt_amt |->
          SumAmt(SelectSeq(Joined(df), LAMBDA x : x.GEOID = r.GEOID))] :
     r \in Rows(Joined(df))}

Log10(x) == [fn |-> "log10", arg |-> x]
LogZero == [fn |-> "const", arg |-> 0]

LogDonationsNoShift(amt) == IF amt > 0 THEN Log10(amt) ELSE LogZero

\* np.where(amt > 0, np.log10(amt + 1), 0); the logarithm is kept as the
\* term log10(arg)
LogDonations(amt) == IF amt > 0 THEN Log10(amt + 1) ELSE LogZero

\* .fillna(0) on a column of strings: a missing cell becomes the number 0
FillZeroCell(v) == IF IsNA(v) THEN I(0) ELSE v

TotalRow(c, cell) ==
    [GEOID |-> c.GEOID, NAMELSAD |-> c.NAMELSAD, State |-> FillZeroCell(c.State),
     contb_receipt_amt |-> cell, log_donations |-> LogDonations(cell.v)]

FillZero(cell) == IF cell.nan THEN Num(0) ELSE cell

\* the rows of counties.merge(county_donations, on="GEOID", how="left")
\* .fillna(0) for one county, with their log_donations
TotalRowsOf(c, cd) ==
    LET m == SetToSeq({x \in cd : x.GEOID = c.GEOID})
    IN IF m = <<>> THEN <<TotalRow(c, FillZero(NumNaN))>>
       ELSE [j \in 1..Len(m) |-> TotalRow(c, FillZero(Num(m[j].contb_receipt_amt)))]

RECURSIVE total_choropleth(_, _)
total_choropleth(cs, cd) ==
    IF cs = <<>> THEN <<>>
    ELSE TotalRowsOf(Head(cs), cd) \o total_choropleth(Tail(cs), cd)

TwoCandidates == {Trump, Harris}

\* merged_df[cand_nm.isin([...])].groupby(["GEOID", "cand_nm"])[amt].sum()
pivot_sums(df) ==
    LET sel == SelectSeq(Joined(df), LAMBDA r : r.cand_nm \in TwoCandidates)
    IN {[GEOID |-> r.GEOID, cand_nm |-> r.cand_nm,
         contb_receipt_amt |->
             SumAmt(SelectSeq(sel, LAMBDA x : x.GEOID = r.GEOID /\ x.cand_nm = r.cand_nm))] :
        r \in Rows(sel)}

\* the columns .unstack(fill_value=0) makes: the candidates that have a group
pivot_columns(df) == {s.cand_nm : s \in pivot_sums(df)}

\* pivot["Harris, Kamala"] and pivot["Trump, Donald J."] raise KeyError
\* when the pivot has no such column
pivot_raises(df) == ~(TwoCandidates \subseteq pivot_columns(df))

Cell(sums, g, cand) ==
    IF \E s \in sums : s.GEOID = g /\ s.cand_nm = cand
    THEN (CHOOSE s \in sums : s.GEOID = g /\ s.cand_nm = cand).contb_receipt_amt
    ELSE 0

\* kamala_ratio = Harris / (Harris + Trump), then fillna(0.5)
kamala_ratio(h, t) == FillHalf(Divide(h, h + t))

\* pivot, with kamala_ratio, when it does not raise
pivot(df) ==
    LET sums == pivot_sums(df)
    IN {[GEOID |-> g, Harris_Kamala |-> Cell(sums, g, Harris),
         Trump_Donald_J |-> Cell(sums, g, Trump),
         kamala_ratio |-> kamala_ratio(Cell(sums, g, Harris), Cell(sums, g, Trump))] :
        g \in {s.GEOID : s \in sums}}

ShareRow(c, h, t, q) ==
    [GEOID |-> c.GEOID, NAMELSAD |-> c.NAMELSAD, State |-> c.State,
     Harris_Kamala |-> h, Trump_Donald_J |-> t, kamala_ratio |-> q]

\* the rows of counties.merge(pivot, on="GEOID", how="left") for one county
ShareRowsOf(c, pv) ==
    LET m == SetToSeq({x \in pv : x.GEOID = c.GEOID})
    IN IF m = <<>> THEN <<ShareRow(c, NumNaN, NumNaN, RatNaN)>>
       ELSE [j \in 1..Len(m) |->
                ShareRow(c, Num(m[j].Harris_Kamala), Num(m[j].Trump_Donald_J),
                         m[j].kamala_ratio)]

RECURSIVE share_choropleth(_, _)
share_choropleth(cs, pv) ==
    IF cs = <<>> THEN <<>>
    ELSE ShareRowsOf(Head(cs), pv) \o share_choropleth(Tail(cs), pv)

\* ------------------------------------------------------------ the script
NoCache == [hit |-> FALSE, df |-> <<>>]

Init ==
    /\ csv \in CsvFiles
    /\ hud = <<>>
    /\ geojson = <<>>
    /\ cache_load_data = NoCache
    /\ cache_crosswalk = NoCache
    /\ cf_df = <<>>
    /\ monthly_grouped = {}
    /\ state_cand_sums = {}
    /\ crosswalk_df = <<>>
    /\ merged_df = <<>>
    /\ choropleth_df = <<>>
    /\ mode = "none"
    /\ err = "none"
    /\ body_runs = 0
    /\ pc = "load_data"

\* lines 52-62: cf_df = load_data(); st.cache_data runs the body on a miss
\* and hands out a copy of the stored frame on a hit; an exception ends the
\* run and stores nothing. Then monthly_grouped = get_monthly_grouped(cf_df),
\* whose cached result is the function's value for that frame.
LoadData ==
    /\ pc = "load_data"
    /\ IF cache_load_data.hit
       THEN /\ cf_df' = cache_load_data.df
            /\ monthly_grouped' = get_monthly_grouped(cf_df')
            /\ pc' = "tab1"
            /\ UNCHANGED <<cache_load_data, err, body_runs>>
       ELSE /\ body_runs' = body_runs + 1
            /\ IF load_data_raises(csv)
               THEN /\ err' = "ValueError"
                    /\ pc' = "done"
                    /\ UNCHANGED <<cache_load_data, cf_df, monthly_grouped>>
               ELSE /\ cache_load_data' = [hit |-> TRUE, df |-> load_data(csv)]
                    /\ cf_df' = load_data(csv)
                    /\ monthly_grouped' = get_monthly_grouped(cf_df')
                    /\ pc' = "tab1"
                    /\ UNCHANGED err
    /\ UNCHANGED <<csv, hud, geojson, cache_crosswalk, state_cand_sums, crosswalk_df,
                   merged_df, choropleth_df, mode>>

\* lines 108-109: the two group-bys of tab 1
Tab1 ==
    /\ pc = "tab1"
    /\ state_cand_sums' = state_cand(grouped(cf_df))
    /\ pc' = "tab3_load"
    /\ UNCHANGED <<csv, hud, geojson, body_runs, monthly_grouped, cache_load_data,
                   cache_crosswalk, cf_df,
                   crosswalk_df, merged_df, choropleth_df, mode, err>>

\* the entry of st.cache_data after the caller has rewritten, in place, the
\* frame a call returned with value df, if the entry were the very frame
\* the call returned: the rewrite shows in the entry
CacheAliased(cache, df) == [hit |-> TRUE, df |-> df]

\* the entry of st.cache_data after the caller has rewritten, in place, the
\* frame a call returned with value df: the entry is a serialized copy and
\* every call returns a frame of its own, so the entry stays as it is
CacheAfterRewrite(cache, df) == cache

\* lines 266-269: load both frames again and rewrite their ZIP columns
Tab3Load ==
    /\ pc = "tab3_load"
    /\ cf_df' = NormalizeDonations(cache_load_data.df)
    /\ cache_load_data' = CacheAfterRewrite(cache_load_data, cf_df')
    /\ IF cache_crosswalk.hit
       THEN /\ crosswalk_df' = NormalizeCrosswalk(cache_crosswalk.df)
            /\ UNCHANGED <<cache_crosswalk, hud>>
       ELSE /\ hud' \in HudResponses
            /\ \E xw \in load_zip_to_county_crosswalk(hud') :
                  /\ cache_crosswalk' = [hit |-> TRUE, df |-> xw]
                  /\ crosswalk_df' = NormalizeCrosswalk(xw)
    /\ pc' = "tab3_merge"
    /\ UNCHANGED <<csv, geojson, body_runs, monthly_grouped, state_cand_sums,
                   merged_df, choropleth_df, mode, err>>

\* lines 278-281: join the donations to the crosswalk
Tab3Merge ==
    /\ pc = "tab3_merge"
    /\ merged_df' = merge_crosswalk(cf_df, crosswalk_df)
    /\ pc' = "tab3_mode"
    /\ UNCHANGED <<csv, hud, geojson, body_runs, monthly_grouped, cache_load_data,
                   cache_crosswalk, cf_df,
                   state_cand_sums, crosswalk_df, choropleth_df, mode, err>>

\* lines 284-286, 303-313: the Total view
Tab3Total ==
    /\ pc = "tab3_mode"
    /\ mode' = "Total"
    /\ geojson' \in GeoFiles
    /\ choropleth_df' = total_choropleth(read_counties(geojson'), county_donations(merged_df))
    /\ pc' = "done"
    /\ UNCHANGED <<csv, hud, body_runs, monthly_grouped, cache_load_data, cache_crosswalk,
                   cf_df, state_cand_sums, crosswalk_df, merged_df, err>>

\* lines 284-286, 317-323: the Kamala vs Trump view
Tab3Share ==
    /\ pc = "tab3_mode"
    /\ mode' = "Kamala vs Trump"
    /\ geojson' \in GeoFiles
    /\ IF pivot_raises(merged_df)
       THEN /\ err' = "KeyError"
            /\ UNCHANGED choropleth_df
       ELSE /\ choropleth_df' = share_choropleth(read_counties(geojson'), pivot(merged_df))
            /\ UNCHANGED err
    /\ pc' = "done"
    /\ UNCHANGED <<csv, hud, body_runs, monthly_grouped, cache_load_data, cache_crosswalk,
                   cf_df, state_cand_sums, crosswalk_df, merged_df>>

\* a widget interaction runs the script again from the top: the script's
\* variables are new, the caches of the process stay; the reruns of a script
\* whose load raises are counted up to MaxBodyRuns executions of the body
Rerun ==
    /\ pc = "done"
    /\ cache_load_data.hit \/ body_runs < MaxBodyRuns
    /\ cf_df' = <<>>
    /\ monthly_grouped' = {}
    /\ state_cand_sums' = {}
    /\ crosswalk_df' = <<>>
    /\ merged_df' = <<>>
    /\ choropleth_df' = <<>>
    /\ geojson' = <<>>
    /\ mode' = "none"
    /\ err' = "none"
    /\ pc' = "load_data"
    /\ UNCHANGED <<csv, hud, body_runs, cache_load_data, cache_crosswalk>>

Next == LoadData \/ Tab1 \/ Tab3Load \/ Tab3Merge \/ Tab3Total \/ Tab3Share \/ Rerun

Spec == Init /\ [][Next]_vars

\* ------------------------------------------------------------- properties
Rendered(m) == pc = "done" /\ mode = m

\* the donations of the join that belong to a county and to a candidate
JoinedTo(g, cand) ==
    SelectSeq(merged_df, LAMBDA r : r.GEOID = g /\ r.cand_nm = cand)

Designated(g) == JoinedTo(g, Harris) \o JoinedTo(g, Trump)

IsHalf(q) == ~q.nan /\ 2 * q.num = q.den

\* C1: in the Kamala vs Trump view, every county without a donation to
\* either of the two candidates has the share ratio 0.5, never NaN.
C1_NeutralRatio ==
    (Rendered("Kamala vs Trump") /\ err = "none") =>
        \A i \in 1..Len(choropleth_df) :
            Designated(choropleth_df[i].GEOID) = <<>> =>
                IsHalf(choropleth_df[i].kamala_ratio)

\* The view was rendered (the pivot did not raise) and a county without a
\* donation to either candidate carries NaN.
C1_NaNReached ==
    /\ Rendered("Kamala vs Trump") /\ err = "none"
    /\ \E i \in 1..Len(choropleth_df) :
          /\ Designated(choropleth_df[i].GEOID) = <<>>
          /\ choropleth_df[i].kamala_ratio.nan

RawZips == {AsTypeStr(hud[i].zip) : i \in 1..Len(hud)}

RawRatios(z) == {hud[i].tot_ratio : i \in {j \in 1..Len(hud) : AsTypeStr(hud[j].zip) = z}}

Resolved(z) ==
    {i \in 1..Len(cache_crosswalk.df) : cache_crosswalk.df[i].zip = S(z)}

\* C2: the frame load_zip_to_county_crosswalk returns has exactly one entry
\* for every ZIP of the raw table, and its tot_ratio is the largest
\* tot_ratio the raw table has for that ZIP.
C2_CrosswalkDedup ==
    cache_crosswalk.hit =>
        \A z \in RawZips :
            /\ Cardinality(Resolved(z)) = 1
            /\ \A i \in Resolved(z) :
                  /\ cache_crosswalk.df[i].tot_ratio \in RawRatios(z)
                  /\ \A q \in RawRatios(z) : q <= cache_crosswalk.df[i].tot_ratio

\* The crosswalk was resolved from a raw table that has a ZIP twice, with
\* two different ratios.
C2_Witness ==
    /\ cache_crosswalk.hit
    /\ \E z \in RawZips : Cardinality(RawRatios(z)) > 1
    /\ Len(cache_crosswalk.df) < Len(hud)

\* the single group-by over (state, candidate)
FlatStateCand(df) ==
    {[contbr_st |-> r.contbr_st, cand_nm |-> r.cand_nm,
      contb_receipt_amt |->
          SumAmt(SelectSeq(df, LAMBDA x : x.contbr_st = r.contbr_st
                                          /\ x.cand_nm = r.cand_nm))] :
     r \in Rows(df)}

\* C3: the two-stage aggregation of tab 1 gives every (state, candidate)
\* the total a single group-by over (state, candidate) gives, rows without
\* ZIP included.
C3_SumInvariant ==
    pc = "tab3_load" => state_cand_sums = FlatStateCand(cf_df)

\* C3 holds for the frames in which every row has a ZIP.
C3_SumInvariantWithZip ==
    (pc = "tab3_load" /\ \A i \in 1..Len(cf_df) : ~IsNA(cf_df[i].contbr_zip)) =>
        state_cand_sums = FlatStateCand(cf_df)

\* C4: in both views the output has one row for every county geometry of
\* the input, whatever the donations are.
C4_GeometryComplete ==
    (pc = "done" /\ mode # "none") => Len(choropleth_df) = Len(geojson)

\* C4 holds for the runs that end without an exception.
C4_GeometryCompleteWhenRendered ==
    (pc = "done" /\ mode # "none" /\ err = "none") =>
        /\ Len(choropleth_df) = Len(geojson)
        /\ \A i \in 1..Len(geojson) :
              choropleth_df[i].GEOID = S(AsTypeStr(geojson[i].GEOID))

\* the loaded donations whose normalized ZIP has a crosswalk entry for g
DonationsOf(g) ==
    SelectSeq(cf_df, LAMBDA d : \E j \in 1..Len(crosswalk_df) :
                                    /\ crosswalk_df[j].zip = d.contbr_zip
                                    /\ crosswalk_df[j].geoid = g)

\* C5: in the Total view the total of a county is the sum of the loaded
\* donations whose normalized ZIP has a crosswalk entry for the county;
\* it is 0 for a county no donation maps to.
C5_TotalIsSum ==
    Rendered("Total") =>
        \A i \in 1..Len(choropleth_df) :
            choropleth_df[i].contb_receipt_amt =
                Num(SumAmt(DonationsOf(choropleth_df[i].GEOID)))

UniqueZips(xw) == \A i, j \in 1..Len(xw) : xw[i].zip = xw[j].zip => i = j

\* C5 holds when the crosswalk of the join has every ZIP once.
C5_TotalIsSumUniqueZips ==
    (Rendered("Total") /\ UniqueZips(crosswalk_df)) =>
        \A i \in 1..Len(choropleth_df) :
            choropleth_df[i].contb_receipt_amt =
                Num(SumAmt(DonationsOf(choropleth_df[i].GEOID)))

ShareRowIsRatio(row) ==
    LET h == SumAmt(JoinedTo(row.GEOID, Harris))
        t == SumAmt(JoinedTo(row.GEOID, Trump))
    IN /\ row.Harris_Kamala = Num(h)
       /\ row.Trump_Donald_J = Num(t)
       /\ ~row.kamala_ratio.nan
       /\ row.kamala_ratio.den # 0
       /\ row.kamala_ratio.num * (h + t) = h * row.kamala_ratio.den

\* C6: in the Kamala vs Trump view every county with a joined donation to
\* one of the two candidates has the two candidates' sums as subtotals and
\* Harris / (Harris + Trump) as ratio.
C6_ShareIsRatio ==
    Rendered("Kamala vs Trump") =>
        \A c \in 1..Len(geojson) :
            LET g == S(AsTypeStr(geojson[c].GEOID))
            IN Designated(g) # <<>> =>
                  \E i \in 1..Len(choropleth_df) :
                      choropleth_df[i].GEOID = g /\ ShareRowIsRatio(choropleth_df[i])

\* C6 holds for the runs in which the pivot does not raise.
C6_ShareIsRatioWhenRendered ==
    (Rendered("Kamala vs Trump") /\ err = "none") =>
        \A i \in 1..Len(choropleth_df) :
            Designated(choropleth_df[i].GEOID) # <<>> =>
                ShareRowIsRatio(choropleth_df[i])

\* log10 is increasing and log10(1) = 0: the term log10(a) is >= 0 when
\* a >= 1, and log10(a) < log10(b) when a < b
LogNonNegative(l) == l.fn = "log10" => l.arg >= 1
LogIsZero(l) == l.fn = "const" \/ l.arg = 1
LogLess(k, l) == k.fn = "log10" /\ l.fn = "log10" /\ k.arg < l.arg

\* C7: in the Total view every county has a log metric: log10(total + 1)
\* when its total is > 0 and 0 otherwise; the metric is >= 0, is 0 for the
\* total 0 and grows strictly with the total.
C7_LogMetric ==
    Rendered("Total") =>
        /\ Len(choropleth_df) = Len(geojson)
        /\ \A i \in 1..Len(choropleth_df) :
              LET row == choropleth_df[i]
              IN /\ ~row.contb_receipt_amt.nan
                 /\ row.contb_receipt_amt.v >= 0
                 /\ row.log_donations =
                        IF row.contb_receipt_amt.v > 0
                        THEN Log10(row.contb_receipt_amt.v + 1) ELSE LogZero
                 /\ LogNonNegative(row.log_donations)
                 /\ (row.contb_receipt_amt.v = 0 => LogIsZero(row.log_donations))
        /\ \A i, j \in 1..Len(choropleth_df) :
              (/\ 0 < choropleth_df[i].contb_receipt_amt.v
               /\ choropleth_df[i].contb_receipt_amt.v < choropleth_df[j].contb_receipt_amt.v)
              => LogLess(choropleth_df[i].log_donations, choropleth_df[j].log_donations)

\* The Total view shows two counties with different totals > 0.
C7_Witness ==
    /\ Rendered("Total")
    /\ \E i, j \in 1..Len(choropleth_df) :
          /\ 0 < choropleth_df[i].contb_receipt_amt.v
          /\ choropleth_df[i].contb_receipt_amt.v < choropleth_df[j].contb_receipt_amt.v

\* the rows of the file that are in the 50 states with an amount > 0
InScope == {i \in 1..Len(csv) : csv[i].contbr_st \in state_codes
                                /\ csv[i].contb_receipt_amt > 0}

\* C8: every row load_data returns is from one of the 50 states and has an
\* amount > 0; the other rows are dropped, and dropping them raises no
\* error: a file whose dates all parse is loaded.
C8_LoadFilters ==
    /\ cache_load_data.hit =>
          /\ \A i \in 1..Len(cache_load_data.df) :
                /\ cache_load_data.df[i].contbr_st \in state_codes
                /\ cache_load_data.df[i].contb_receipt_amt > 0
          /\ {cache_load_data.df[i].idx : i \in 1..Len(cache_load_data.df)} = InScope
    /\ (pc # "load_data" /\ \A i \in 1..Len(csv) : ~DateRaises(csv[i].contb_receipt_dt)) =>
          cache_load_data.hit /\ err # "ValueError"

\* load_data returned a frame from a file that has a row outside the 50
\* states and a row with an amount <= 0.
C8_Witness ==
    /\ cache_load_data.hit
    /\ \E i \in 1..Len(csv) : csv[i].contbr_st \notin state_codes
    /\ \E i \in 1..Len(csv) : csv[i].contb_receipt_amt <= 0

\* a date field that is present and is not a "%d-%b-%y" date
Malformed(s) == s # <<>> /\ ~Parses(s)

IsZipField(f) == Len(f) >= ZipWidth /\ IsDigits(SubSeq(f, 1, ZipWidth))

\* C10: after ZIP normalization a 9-digit ZIP+4 and a ZIP read as a number
\* are the 5-digit ZIP of the field they came from.
C10_ZipReconciled ==
    pc \in {"tab3_merge", "tab3_mode"} =>
        \A i \in 1..Len(cf_df) :
            LET f == csv[cf_df[i].idx].contbr_zip
            IN IsZipField(f) => cf_df[i].contbr_zip = S(SubSeq(f, 1, ZipWidth))

\* C10 holds for the ZIP columns read as strings.
C10_ZipReconciledStrings ==
    (pc \in {"tab3_merge", "tab3_mode"} /\ ZipColumnType(csv) = "string") =>
        \A i \in 1..Len(cf_df) :
            LET f == csv[cf_df[i].idx].contbr_zip
            IN IsZipField(f) => cf_df[i].contbr_zip = S(SubSeq(f, 1, ZipWidth))

\* ---------------------------------------------------------------- C11
\* a ZIP already in the normalized form: five digits held as a string
IsFiveDigitZip(v) == v.t = "str" /\ Len(v.s) = ZipWidth /\ IsDigits(v.s)

\* C11: ZIP normalization is idempotent: normalizing a ZIP column that has
\* been normalized gives the same values, and a ZIP that was loaded as a
\* 5-digit zero-padded string is left unchanged by the normalization.
C11_NormalizeIdempotent ==
    pc \in {"tab3_merge", "tab3_mode"} =>
        /\ \A i \in 1..Len(cf_df) :
              /\ S(NormalizeZip(cf_df[i].contbr_zip)) = cf_df[i].contbr_zip
              /\ IsFiveDigitZip(cache_load_data.df[i].contbr_zip) =>
                     cf_df[i].contbr_zip = cache_load_data.df[i].contbr_zip
        /\ \A i \in 1..Len(crosswalk_df) :
              /\ S(NormalizeZip(crosswalk_df[i].zip)) = crosswalk_df[i].zip
              /\ IsFiveDigitZip(cache_crosswalk.df[i].zip) =>
                     crosswalk_df[i].zip = cache_crosswalk.df[i].zip

\* both ZIP columns were normalized; one donation ZIP was rewritten by it and
\* another was a 5-digit string already, and so was a crosswalk ZIP.
C11_Witness ==
    /\ pc = "tab3_merge"
    /\ \E i, j \in 1..Len(cf_df) :
          /\ cf_df[i].contbr_zip # cache_load_data.df[i].contbr_zip
          /\ IsFiveDigitZip(cache_load_data.df[j].contbr_zip)
    /\ \E i \in 1..Len(crosswalk_df) : IsFiveDigitZip(cache_crosswalk.df[i].zip)
    /\ \E i \in 1..Len(crosswalk_df) :
          crosswalk_df[i].zip # cache_crosswalk.df[i].zip

\* ---------------------------------------------------------------- C12
\* the candidates of the pair that have no donation in the loaded table
Absent == {c \in TwoCandidates : \A i \in 1..Len(cf_df) : cf_df[i].cand_nm # c}

\* C12: a choropleth view never ends in an exception on a valid but sparse
\* table; when one of the two designated candidates has no donation, the
\* Kamala vs Trump view is produced with that candidate's subtotal 0 in every
\* county that has a subtotal.
C12_SparseNeverRaises ==
    (pc = "done" /\ mode # "none") =>
        /\ err = "none"
        /\ mode = "Kamala vs Trump" =>
              /\ Len(choropleth_df) = Len(geojson)
              /\ \A i \in 1..Len(choropleth_df) :
                    /\ (Harris \in Absent /\ ~choropleth_df[i].Harris_Kamala.nan) =>
                           choropleth_df[i].Harris_Kamala.v = 0
                    /\ (Trump \in Absent /\ ~choropleth_df[i].Trump_Donald_J.nan) =>
                           choropleth_df[i].Trump_Donald_J.v = 0

\* ---------------------------------------------------------------- C13
\* k is the "YYYY-MM" string of the month of a date
IsYearMonth(k, ts) ==
    /\ Len(k) = 7
    /\ k[5] = "-"
    /\ IsDigits(SubSeq(k, 1, 4)) /\ IntOfStr(SubSeq(k, 1, 4)) = ts.y
    /\ IsDigits(SubSeq(k, 6, 7)) /\ IntOfStr(SubSeq(k, 6, 7)) = ts.m

\* the records of the input with the month and the candidate of record r;
\* the records without a date count as one month
SameMonthCand(df, r) ==
    SelectSeq(df, LAMBDA x : /\ x.cand_nm = r.cand_nm
                             /\ x.contb_receipt_dt.nat = r.contb_receipt_dt.nat
                             /\ x.contb_receipt_dt.y = r.contb_receipt_dt.y
                             /\ x.contb_receipt_dt.m = r.contb_receipt_dt.m)

\* the rows of the monthly table that stand for the pair of record r
MonthlyRowsOf(r) ==
    {g \in monthly_grouped :
        /\ g.cand_nm = r.cand_nm
        /\ IF r.contb_receipt_dt.nat THEN ~IsDigit(g.month[1])
           ELSE IsYearMonth(g.month, r.contb_receipt_dt)}

\* C13: get_monthly_grouped returns exactly one row for every (YYYY-MM
\* month, candidate) pair of its input, whose amount is the sum of the
\* records of that pair, and no row for a pair that is not in the input.
C13_MonthlyGrouped ==
    pc = "tab1" =>
        /\ \A i \in 1..Len(cf_df) :
              /\ Cardinality(MonthlyRowsOf(cf_df[i])) = 1
              /\ \A g \in MonthlyRowsOf(cf_df[i]) :
                    g.contb_receipt_amt = SumAmt(SameMonthCand(cf_df, cf_df[i]))
        /\ \A g \in monthly_grouped :
              \E i \in 1..Len(cf_df) : g \in MonthlyRowsOf(cf_df[i])

\* two records of one month and candidate were added up in one row
C13_Witness ==
    /\ pc = "tab1"
    /\ \E i, j \in 1..Len(cf_df) :
          /\ i # j
          /\ ~cf_df[i].contb_receipt_dt.nat
          /\ SameMonthCand(cf_df, cf_df[i]) = <<cf_df[i], cf_df[j]>>
          /\ \E g \in monthly_grouped :
                g.contb_receipt_amt =
                    cf_df[i].contb_receipt_amt + cf_df[j].contb_receipt_amt

\* two pairs of the input, of two months, have a row each
C13_WitnessTwoMonths ==
    /\ pc = "tab1"
    /\ \E g, h \in monthly_grouped : g.month # h.month /\ IsDigit(g.month[1])
                                                       /\ IsDigit(h.month[1])

\* ---------------------------------------------------------------- C14
\* the positions of the raw table that hold ZIP z with its largest tot_ratio
TopEntries(z) ==
    {i \in 1..Len(hud) :
        /\ AsTypeStr(hud[i].zip) = z
        /\ \A q \in RawRatios(z) : q <= hud[i].tot_ratio}

\* C14: when several raw entries of a ZIP share the largest tot_ratio, the
\* entry load_zip_to_county_crosswalk retains is the one that comes first in
\* the fetched table.
C14_TieFirstSeen ==
    cache_crosswalk.hit =>
        \A z \in RawZips :
            \A i \in Resolved(z) :
                \A k \in TopEntries(z) : cache_crosswalk.df[i].idx <= k

\* What the code does keep on a tie: one of the entries of the largest ratio.
C14_TieKeepsTopEntry ==
    cache_crosswalk.hit =>
        \A z \in RawZips :
            \A i \in Resolved(z) : cache_crosswalk.df[i].idx \in TopEntries(z)

\* A tie was resolved to the entry that comes later in the fetched table.
C14_LaterEntryKept ==
    /\ cache_crosswalk.hit
    /\ \E z \in RawZips :
          \E i \in Resolved(z) :
              \E k \in TopEntries(z) : k < cache_crosswalk.df[i].idx

\* ---------------------------------------------------------------- C15
\* the sum of the county totals of the Total view
RECURSIVE SumTotals(_)
SumTotals(df) ==
    IF df = <<>> THEN 0 ELSE Head(df).contb_receipt_amt.v + SumTotals(Tail(df))

\* C15: the crosswalk used in the join, with its ZIPs normalized to five
\* characters, has at most one entry per ZIP, so the join holds every
\* donation once and the county totals add up to no more than the loaded
\* donation amounts.
C15_JoinNeverDuplicates ==
    /\ pc \in {"tab3_merge", "tab3_mode", "done"} => UniqueZips(crosswalk_df)
    /\ pc \in {"tab3_mode", "done"} =>
          \A i, j \in 1..Len(merged_df) : merged_df[i].idx = merged_df[j].idx => i = j
    /\ Rendered("Total") => SumTotals(choropleth_df) <= SumAmt(cf_df)

\* C15 holds for the join itself when the normalized crosswalk has every
\* ZIP once: no donation is duplicated and the totals stay within the sum.
C15_NoDuplicatesUniqueZips ==
    UniqueZips(crosswalk_df) =>
        /\ pc \in {"tab3_mode", "done"} =>
              \A i, j \in 1..Len(merged_df) : merged_df[i].idx = merged_df[j].idx => i = j
        /\ Rendered("Total") => SumTotals(choropleth_df) <= SumAmt(cf_df)

\* The Total view shows more money than was loaded.
C15_TotalsExceedLoaded ==
    Rendered("Total") /\ SumTotals(choropleth_df) > SumAmt(cf_df)

\* ---------------------------------------------------------------- C16
\* the first two characters of the GEOID of an output row
PrefixOf(row) == StatePrefix(row.GEOID.s)

KnownPrefix(prefix) == \E e \in state_fips_map : e[1] = prefix

StateNames == {Txt(e[2]) : e \in state_fips_map}

\* C16: every output row of a view carries the state name the FIPS table
\* gives for the first two characters of its GEOID; a row whose prefix is
\* not in the table carries an explicit marker for "unknown", a text that is
\* no state name, in both views, and the join does not fail on it.
C16_StateNamed ==
    (pc = "done" /\ mode # "none" /\ err = "none") =>
        /\ Len(choropleth_df) >= Len(geojson)
        /\ \A i \in 1..Len(choropleth_df) :
              IF KnownPrefix(PrefixOf(choropleth_df[i]))
              THEN \E e \in state_fips_map :
                      /\ e[1] = PrefixOf(choropleth_df[i])
                      /\ choropleth_df[i].State = Txt(e[2])
              ELSE /\ choropleth_df[i].State.t = "str"
                   /\ choropleth_df[i].State \notin StateNames

\* C16 holds for the rows whose prefix is in the table, and a prefix outside
\* the table never makes the join fail.
C16_KnownPrefixNamed ==
    (pc = "done" /\ mode # "none" /\ err = "none") =>
        /\ Len(choropleth_df) >= Len(geojson)
        /\ \A i \in 1..Len(choropleth_df) :
              KnownPrefix(PrefixOf(choropleth_df[i])) =>
                  \E e \in state_fips_map :
                      /\ e[1] = PrefixOf(choropleth_df[i])
                      /\ choropleth_df[i].State = Txt(e[2])

\* The Total view shows the number 0 as the state of a county.
C16_ZeroStateInTotal ==
    /\ Rendered("Total")
    /\ \E i \in 1..Len(choropleth_df) : choropleth_df[i].State = I(0)

\* The Kamala vs Trump view shows NaN as the state of a county.
C16_NaNStateInShare ==
    /\ Rendered("Kamala vs Trump") /\ err = "none"
    /\ \E i \in 1..Len(choropleth_df) : choropleth_df[i].State = NaN

\* ---------------------------------------------------------------- C17
\* a county FIPS code in its normal form: five digits held as a string
IsCountyFips(v) == v.t = "str" /\ Len(v.s) = ZipWidth /\ IsDigits(v.s)

\* C17: every GEOID of the resolved crosswalk is a 5-digit zero-padded
\* county FIPS string, so an entry whose GEOID was fetched as a number or
\* without its leading zero joins to the county that has the padded GEOID.
C17_GeoidNormalized ==
    /\ cache_crosswalk.hit =>
          \A i \in 1..Len(cache_crosswalk.df) : IsCountyFips(cache_crosswalk.df[i].geoid)
    /\ pc \in {"tab3_mode", "done"} =>
          \A i \in 1..Len(merged_df) :
              \A k \in 1..Len(geojson) :
                  (~IsNA(merged_df[i].GEOID)
                     /\ ZFill(merged_df[i].GEOID.s) = AsTypeStr(geojson[k].GEOID)) =>
                      merged_df[i].GEOID = S(AsTypeStr(geojson[k].GEOID))

\* What the resolver does to a GEOID: str() of the fetched value.
C17_GeoidIsStrOfFetched ==
    cache_crosswalk.hit =>
        \A i \in 1..Len(cache_crosswalk.df) :
            cache_crosswalk.df[i].geoid =
                S(AsTypeStr(hud[cache_crosswalk.df[i].idx].geoid))

\* A GEOID fetched as a number is in the resolved crosswalk with four digits.
C17_ShortGeoidKept ==
    /\ cache_crosswalk.hit
    /\ \E i \in 1..Len(cache_crosswalk.df) :
          /\ hud[cache_crosswalk.df[i].idx].geoid.t = "int"
          /\ Len(cache_crosswalk.df[i].geoid.s) < ZipWidth

\* ---------------------------------------------------------------- C18
\* C18 as stated: over all calls and reruns of one process the body of
\* load_data runs at most once, every call returns a table equal to the
\* first result, and the in-place ZIP rewrite of a returned table shows
\* neither in a later call's table nor in the cache.
C18_BodyRunsOnce ==
    /\ body_runs <= 1
    /\ cache_load_data.hit => cache_load_data.df = load_data(csv)
    /\ pc = "tab1" => cf_df = cache_load_data.df

\* C18, amended: the body of load_data returns at most once: after a call
\* has returned the body never runs again, every call returns a table equal
\* to that first result, and the in-place ZIP rewrite of a returned table
\* shows neither in a later call's table nor in the cache. The body runs
\* more than once only when it raises, which stores nothing.
C18_BodyReturnsOnce ==
    /\ cache_load_data.hit => body_runs = 1
    /\ body_runs > 1 => (~cache_load_data.hit /\ load_data_raises(csv))
    /\ cache_load_data.hit => cache_load_data.df = load_data(csv)
    /\ pc = "tab1" => cf_df = cache_load_data.df

\* A rerun, after the ZIP column of a returned table was rewritten to other
\* values, got its table from the cache without running the body again.
C18_Witness ==
    /\ pc = "tab1"
    /\ cache_crosswalk.hit
    /\ body_runs = 1
    /\ cf_df # <<>>
    /\ NormalizeDonations(cf_df) # cf_df

\* The body ran a second time, in the rerun of a script whose load raised.
C18_BodyRanTwice ==
    body_runs = 2 /\ err = "ValueError"

====
